---- MODULE Spec2Model ----
(***************************************************************************)
(* Model of the WebSocket signaling relay of src/main.go.                  *)
(*                                                                         *)
(* One worker per connection runs handleWebSocket.  The shared state is    *)
(* the two package-level maps `clients` and `roomUsers`, the Client        *)
(* objects they point to, and the one sync.Mutex.  A worker's position in  *)
(* handleWebSocket is pc[w]; a step that the code performs between         *)
(* mutex.Lock() and mutex.Unlock() is taken while mutex = w.               *)
(*                                                                         *)
(* Connection identifiers (uuid.New().String(), main.go:61) are modelled   *)
(* as 1..MaxConns: worker w is assigned identifier w.  The value 0 stands  *)
(* for a string that is no assigned identifier (an absent or unknown       *)
(* `to`/`from`).                                                           *)
(***************************************************************************)
EXTENDS Integers, Sequences, FiniteSets, TLC

\* Number of connections that may be opened.
MaxConns == 2
\* Number of frames the server reads, over all connections.
MaxFrames == 2

Conns == 1..MaxConns
Ids == 0..MaxConns

\* Room names a client may put in `room`; "" is the absent/empty field.
RoomNames == {"", "r1", "r2"}

\* An opaque payload is a sequence of bytes, abstracted by class:
\*   "c"  an ordinary byte,
\*   "ws" a whitespace byte between the tokens of the JSON value,
\*   "lt" the byte '<' inside a JSON string.
\* <<>> is the absent field.

\* *bool: <<>> is nil, <<b>> points to b.
MicPtrs == {<<>>, <<TRUE>>, <<FALSE>>}

RelayTypes == {"offer", "answer", "candidate"}

\* The values of msg.Type that the switch has a case for.
HandledTypes == {"join", "leave", "mic"} \cup RelayTypes

VARIABLES
    clients,    \* DOMAIN of the map clients: the registered identifiers
    roomUsers,  \* the map roomUsers: room name -> sequence of identifiers
    mutex,      \* 0 when unlocked, else the worker holding it
    Room,       \* Client.Room of each connection's Client object
    MicOn,      \* Client.MicOn of each connection's Client object
    pc,         \* each worker's position in handleWebSocket
    cur,        \* each worker's `msg` while it handles a frame
    tmp,        \* each worker's operand roomUsers[msg.Room] of append
    wire,       \* the WriteJSON calls made by the last step
    frames,     \* number of frames read so far
    joined,     \* the rooms each connection appended itself to, in order
    removes,    \* number of removeClient calls made for each connection
    crashed,    \* the runtime has thrown a fatal error
    written     \* per connection: type of the first frame written to it,
                \* and the number of id frames written to it

vars == <<clients, roomUsers, mutex, Room, MicOn, pc, cur, tmp, wire, frames,
          joined, removes, crashed, written>>

\* The zero value of Message (var msg Message).
ZeroMsg ==
    [type |-> "", room |-> "", to |-> 0, from |-> 0, offer |-> <<>>,
     answer |-> <<>>, candidate |-> <<>>, micOn |-> <<>>, users |-> <<>>,
     id |-> 0]

\* The frames a client sends, as json.Unmarshal decodes them into Message.
JoinFrames == {[ZeroMsg EXCEPT !.type = "join", !.room = r] : r \in RoomNames}
LeaveFrames ==
    {[ZeroMsg EXCEPT !.type = "leave", !.room = r] : r \in {"", "r1"}}
MicFrames == {[ZeroMsg EXCEPT !.type = "mic", !.micOn = m] : m \in MicPtrs}
OfferFrames ==
    {[ZeroMsg EXCEPT !.type = "offer", !.to = t, !.from = f, !.offer = p] :
        t \in Ids, <<f, p>> \in {<<0, <<"c">>>>, <<1, <<"c", "ws", "lt">>>>}}
AnswerFrames ==
    {[ZeroMsg EXCEPT !.type = "answer", !.to = t, !.answer = <<"c">>] :
        t \in {0, 1}}
CandidateFrames ==
    {[ZeroMsg EXCEPT !.type = "candidate", !.to = t, !.candidate = <<"c">>] :
        t \in {0, 1}}
OtherFrames ==
    {[ZeroMsg EXCEPT !.type = t] : t \in {"ping", "id", "user_list"}}
Frames ==
    JoinFrames \cup LeaveFrames \cup MicFrames \cup OfferFrames
        \cup AnswerFrames \cup CandidateFrames \cup OtherFrames

Count(s, x) == Cardinality({i \in DOMAIN s : s[i] = x})

\* json.Marshal of a json.RawMessage: the encoder compacts the raw bytes
\* and escapes '<' (Encoder default escapeHTML).
Compact(p) ==
    LET kept == SelectSeq(p, LAMBDA b : b # "ws")
    IN  [k \in 1..Len(kept) |-> IF kept[k] = "lt" THEN "u003c" ELSE kept[k]]

\* conn.WriteJSON(msg): the frame written to the connection.
WriteJSON(msg) ==
    [msg EXCEPT !.offer = Compact(msg.offer),
                !.answer = Compact(msg.answer),
                !.candidate = Compact(msg.candidate)]

\* sendMessage(conn, msg), as the write it makes: the connection written
\* to (named by its identifier) and the frame.
sendMessage(to, msg) == [to |-> to, msg |-> WriteJSON(msg)]

\* roomUsers[room]: the zero value (no members) for a missing key.
Members(room) == IF room \in DOMAIN roomUsers THEN roomUsers[room] ELSE <<>>

\* roomUsers[room] = append(old, id), old being the operand read before.
AppendMember(room, old, id) ==
    [r \in DOMAIN roomUsers \cup {room} |->
        IF r = room THEN Append(old, id) ELSE roomUsers[r]]

\* The filter loop of removeClient.
RemoveMember(room, id) ==
    IF room \in DOMAIN roomUsers
    THEN [roomUsers EXCEPT ![room] = SelectSeq(@, LAMBDA x : x # id)]
    ELSE roomUsers

\* The entries of roomUsers[room], without the lookup in clients.
EveryEntry(room) == Members(room)

\* The entries of roomUsers[room] that are keys of clients, in order.
LiveMembers(room) == SelectSeq(Members(room), LAMBDA i : i \in clients)

\* The first loop of broadcastUserList: users.
Roster(room) ==
    LET live == LiveMembers(room)
    IN  [k \in 1..Len(live) |-> [id |-> live[k], micOn |-> MicOn[live[k]]]]

\* The values a read of c.MicOn may return: the stored one, or, while the
\* connection's own worker is at its unsynchronised write of the field, the
\* one being written.
MicReads(m) ==
    IF pc[m] = "mic" THEN {MicOn[m], cur[m].micOn[1]} ELSE {MicOn[m]}

\* The first loop of broadcastUserList: the possible values of users.  The
\* loop reads c.MicOn once per entry; a write of the field that another
\* worker makes without the mutex lands before some entry of the loop
\* (after the last one: at[m] = Len + 1), and the reads from that entry on
\* return the written value.
Rosters(room) ==
    LET live == LiveMembers(room)
        read(at, k) ==
            IF pc[live[k]] = "mic" /\ k >= at[live[k]]
            THEN cur[live[k]].micOn[1]
            ELSE MicOn[live[k]]
    IN  {[k \in 1..Len(live) |-> [id |-> live[k], micOn |-> read(at, k)]] :
            at \in [Conns -> 1..(Len(live) + 1)]}

\* The second loop of broadcastUserList: one sendMessage per live entry.
BroadcastSends(room, users) ==
    LET live == LiveMembers(room)
        m == [ZeroMsg EXCEPT !.type = "user_list", !.users = users]
    IN  [k \in 1..Len(live) |-> sendMessage(live[k], m)]

\* The effect of a sequence of writes on what each connection was written.
RECURSIVE Deliver(_, _)
Deliver(g, s) ==
    IF s = <<>>
    THEN g
    ELSE LET t == Head(s).msg.type
         IN  Deliver([g EXCEPT ![Head(s).to] =
                         [first |-> IF @.first = "" THEN t ELSE @.first,
                          ids |-> IF t = "id" THEN @.ids + 1 ELSE @.ids]],
                     Tail(s))

\* The identifiers a client can put in `to`: those the server has sent out
\* (a uuid is unknown to every client until its id message is written), and
\* 0, a string that is no identifier.
Disclosed == {0} \cup {t \in Conns : written[t].ids > 0}

\* sendTo(id, msg)
sendTo(id, msg) ==
    IF id \in clients THEN <<sendMessage(id, msg)>> ELSE <<>>

\* The argument of the broadcastUserList call a worker is at.
BroadcastRoom(w) ==
    CASE pc[w] = "exit_bcast" -> Room[w]
      [] cur[w].type = "mic" -> Room[w]
      [] OTHER -> cur[w].room

\* A step that writes to no connection.
Quiet == [by |-> 0, frame |-> ZeroMsg, room |-> "", sent |-> <<>>]

Init ==
    /\ clients = {}
    /\ roomUsers = [r \in {} |-> <<>>]
    /\ mutex = 0
    /\ Room = [w \in Conns |-> ""]
    /\ MicOn = [w \in Conns |-> TRUE]
    /\ pc = [w \in Conns |-> "new"]
    /\ cur = [w \in Conns |-> ZeroMsg]
    /\ tmp = [w \in Conns |-> <<>>]
    /\ wire = Quiet
    /\ frames = 0
    /\ joined = [w \in Conns |-> <<>>]
    /\ removes = [w \in Conns |-> 0]
    /\ crashed = FALSE
    /\ written = [w \in Conns |-> [first |-> "", ids |-> 0]]

\* The Client built without MicOn: true, the field at its zero value.
ConnectMicOff(w) ==
    /\ ~crashed
    /\ pc[w] = "new"
    /\ Room' = [Room EXCEPT ![w] = ""]
    /\ MicOn' = [MicOn EXCEPT ![w] = FALSE]
    /\ pc' = [pc EXCEPT ![w] = "register"]
    /\ wire' = Quiet
    /\ UNCHANGED <<clients, roomUsers, mutex, cur, tmp, frames, joined,
                   removes, crashed, written>>

\* A connection arrives: upgrader.Upgrade succeeds, id and client are
\* created (MicOn: true).
Connect(w) ==
    /\ ~crashed
    /\ pc[w] = "new"
    /\ Room' = [Room EXCEPT ![w] = ""]
    /\ MicOn' = [MicOn EXCEPT ![w] = TRUE]
    /\ pc' = [pc EXCEPT ![w] = "register"]
    /\ wire' = Quiet
    /\ UNCHANGED <<clients, roomUsers, mutex, cur, tmp, frames, joined,
                   removes, crashed, written>>

\* clients[id] = client, without the mutex.
Register(w) ==
    /\ ~crashed
    /\ pc[w] = "register"
    /\ clients' = clients \cup {w}
    /\ pc' = [pc EXCEPT ![w] = "sendId"]
    /\ wire' = Quiet
    /\ UNCHANGED <<roomUsers, mutex, Room, MicOn, cur, tmp, frames, joined,
                   removes, crashed, written>>

\* sendMessage(conn, Message{Type: "id", ID: id})
SendId(w) ==
    /\ ~crashed
    /\ pc[w] = "sendId"
    /\ wire' = [by |-> w, frame |-> ZeroMsg, room |-> "",
                sent |-> <<sendMessage(w, [ZeroMsg EXCEPT !.type = "id",
                                                          !.id = w])>>]
    /\ written' = Deliver(written, wire'.sent)
    /\ pc' = [pc EXCEPT ![w] = "read"]
    /\ UNCHANGED <<clients, roomUsers, mutex, Room, MicOn, cur, tmp, frames,
                   joined, removes, crashed>>

\* The switch with one more case: a client-sent user_list is broadcast.
DispatchUserList(msg) ==
    CASE msg.type = "join" -> "join"
      [] msg.type = "leave" -> "leave"
      [] msg.type = "mic" /\ msg.micOn # <<>> -> "mic"
      [] msg.type \in RelayTypes -> "relay"
      [] msg.type = "user_list" -> "bcast"
      [] OTHER -> "read"

\* The position the switch on msg.Type leads to.
Dispatch(msg) ==
    CASE msg.type = "join" -> "join"
      [] msg.type = "leave" -> "leave"
      [] msg.type = "mic" /\ msg.micOn # <<>> -> "mic"
      [] msg.type \in RelayTypes -> "relay"
      [] OTHER -> "read"

\* conn.ReadMessage returns a frame that json.Unmarshal decodes; a frame
\* that no case of the switch handles ends the iteration.
ReadMessage(w) ==
    /\ ~crashed
    /\ pc[w] = "read"
    /\ frames < MaxFrames
    /\ \E msg \in Frames :
        /\ msg.to \in Disclosed
        /\ cur' = [cur EXCEPT ![w] =
                      IF Dispatch(msg) = "read" THEN ZeroMsg ELSE msg]
        /\ pc' = [pc EXCEPT ![w] = Dispatch(msg)]
        /\ wire' = IF Dispatch(msg) = "read"
                   THEN [by |-> w, frame |-> msg, room |-> "", sent |-> <<>>]
                   ELSE Quiet
    /\ frames' = frames + 1
    /\ UNCHANGED <<clients, roomUsers, mutex, Room, MicOn, tmp, joined,
                   removes, crashed, written>>

\* conn.ReadMessage returns a frame that json.Unmarshal rejects: continue.
ReadMalformed(w) ==
    /\ ~crashed
    /\ pc[w] = "read"
    /\ frames < MaxFrames
    /\ frames' = frames + 1
    /\ wire' = [by |-> w, frame |-> ZeroMsg, room |-> "", sent |-> <<>>]
    /\ UNCHANGED <<clients, roomUsers, mutex, Room, MicOn, pc, cur, tmp,
                   joined, removes, crashed, written>>

\* conn.ReadMessage returns an error (read failure or peer close): break.
ReadError(w) ==
    /\ ~crashed
    /\ pc[w] = "read"
    /\ pc' = [pc EXCEPT ![w] = "exit"]
    /\ wire' = Quiet
    /\ UNCHANGED <<clients, roomUsers, mutex, Room, MicOn, cur, tmp, frames,
                   joined, removes, crashed, written>>

\* case "join" with the Lock/Unlock pair left out.
JoinNoLock(w) ==
    /\ ~crashed
    /\ pc[w] = "join"
    /\ Room' = [Room EXCEPT ![w] = cur[w].room]
    /\ tmp' = [tmp EXCEPT ![w] = Members(cur[w].room)]
    /\ pc' = [pc EXCEPT ![w] = "joinLocked"]
    /\ wire' = Quiet
    /\ UNCHANGED <<clients, roomUsers, mutex, MicOn, cur, frames, joined,
                   removes, crashed, written>>

\* case "join": client.Room = msg.Room; mutex.Lock(); the operand
\* roomUsers[msg.Room] of append is read.
JoinLock(w) ==
    /\ ~crashed
    /\ pc[w] = "join"
    /\ mutex = 0
    /\ Room' = [Room EXCEPT ![w] = cur[w].room]
    /\ mutex' = w
    /\ tmp' = [tmp EXCEPT ![w] = Members(cur[w].room)]
    /\ pc' = [pc EXCEPT ![w] = "joinLocked"]
    /\ wire' = Quiet
    /\ UNCHANGED <<clients, roomUsers, MicOn, cur, frames, joined, removes,
                   crashed, written>>

\* roomUsers[msg.Room] = append(..., client.ID); mutex.Unlock()
JoinAppend(w) ==
    /\ ~crashed
    /\ pc[w] = "joinLocked"
    /\ roomUsers' = AppendMember(cur[w].room, tmp[w], w)
    /\ tmp' = [tmp EXCEPT ![w] = <<>>]
    /\ mutex' = 0
    /\ joined' = [joined EXCEPT ![w] = Append(@, cur[w].room)]
    /\ pc' = [pc EXCEPT ![w] = "bcast"]
    /\ wire' = Quiet
    /\ UNCHANGED <<clients, Room, MicOn, cur, frames, removes, crashed,
                   written>>

\* removeClient(client), from case "leave" or after the loop: Lock,
\* delete(clients, c.ID), the filter of roomUsers[c.Room], Unlock.
removeClient(w) ==
    /\ ~crashed
    /\ pc[w] \in {"leave", "exit"}
    /\ mutex = 0
    /\ clients' = clients \ {w}
    /\ roomUsers' = RemoveMember(Room[w], w)
    /\ removes' = [removes EXCEPT ![w] = @ + 1]
    /\ pc' = [pc EXCEPT ![w] = IF pc[w] = "leave" THEN "bcast" ELSE "exit_bcast"]
    /\ wire' = Quiet
    /\ UNCHANGED <<mutex, Room, MicOn, cur, tmp, frames, joined, crashed,
                   written>>

\* case "mic" with msg.MicOn != nil: client.MicOn = *msg.MicOn, no mutex.
SetMic(w) ==
    /\ ~crashed
    /\ pc[w] = "mic"
    /\ MicOn' = [MicOn EXCEPT ![w] = cur[w].micOn[1]]
    /\ pc' = [pc EXCEPT ![w] = "bcast"]
    /\ wire' = Quiet
    /\ UNCHANGED <<clients, roomUsers, mutex, Room, cur, tmp, frames, joined,
                   removes, crashed, written>>

\* case "offer", "answer", "candidate": msg.From = client.ID; sendTo.
Relay(w) ==
    /\ ~crashed
    /\ pc[w] = "relay"
    /\ LET msg == [cur[w] EXCEPT !.from = w]
       IN  wire' = [by |-> w, frame |-> cur[w], room |-> "",
                    sent |-> sendTo(msg.to, msg)]
    /\ written' = Deliver(written, wire'.sent)
    /\ cur' = [cur EXCEPT ![w] = ZeroMsg]
    /\ pc' = [pc EXCEPT ![w] = "read"]
    /\ UNCHANGED <<clients, roomUsers, mutex, Room, MicOn, tmp, frames,
                   joined, removes, crashed>>

\* broadcastUserList(room): Lock, both loops, Unlock.
broadcastUserList(w) ==
    /\ ~crashed
    /\ pc[w] \in {"bcast", "exit_bcast"}
    /\ mutex = 0
    /\ \E users \in Rosters(BroadcastRoom(w)) :
          wire' = [by |-> w, frame |-> cur[w], room |-> BroadcastRoom(w),
                   sent |-> BroadcastSends(BroadcastRoom(w), users)]
    /\ written' = Deliver(written, wire'.sent)
    /\ cur' = [cur EXCEPT ![w] = ZeroMsg]
    /\ pc' = [pc EXCEPT ![w] = IF pc[w] = "bcast" THEN "read" ELSE "done"]
    /\ UNCHANGED <<clients, roomUsers, mutex, Room, MicOn, tmp, frames,
                   joined, removes, crashed>>

\* broadcastUserList(room) one of whose conn.WriteJSON calls never returns
\* (the peer does not read, and no write deadline is set): the writes before
\* it are made, and the worker stays in the call, the mutex locked.
broadcastBlocked(w) ==
    /\ ~crashed
    /\ pc[w] \in {"bcast", "exit_bcast"}
    /\ mutex = 0
    /\ \E users \in Rosters(BroadcastRoom(w)) :
          LET sends == BroadcastSends(BroadcastRoom(w), users)
          IN  \E k \in 1..Len(sends) :
                 wire' = [by |-> w, frame |-> cur[w],
                          room |-> BroadcastRoom(w),
                          sent |-> SubSeq(sends, 1, k - 1)]
    /\ written' = Deliver(written, wire'.sent)
    /\ mutex' = w
    /\ pc' = [pc EXCEPT ![w] = "blocked"]
    /\ UNCHANGED <<clients, roomUsers, Room, MicOn, cur, tmp, frames, joined,
                   removes, crashed>>

\* The connections that a worker's next step calls conn.WriteJSON on.
WritesTo(w) ==
    CASE pc[w] = "sendId" -> {w}
      [] pc[w] = "relay" -> {cur[w].to} \cap clients
      [] pc[w] \in {"bcast", "exit_bcast"} ->
            {t \in Conns : Count(LiveMembers(BroadcastRoom(w)), t) > 0}
      [] OTHER -> {}

\* The accesses to the map clients that a worker's next step makes, and
\* whether that step makes them between Lock and Unlock.
WritesClients(w) == pc[w] \in {"register", "leave", "exit"}
ReadsClients(w) == pc[w] \in {"relay", "bcast", "exit_bcast"}
Locks(w) == pc[w] \in {"leave", "exit", "bcast", "exit_bcast"}

\* Two workers are about to access the map clients, one of them writing,
\* and not both under the mutex.
MapRace ==
    \E w1, w2 \in Conns :
        /\ w1 # w2
        /\ WritesClients(w1)
        /\ WritesClients(w2) \/ ReadsClients(w2)
        /\ ~(Locks(w1) /\ Locks(w2))

\* The runtime detects the unsynchronised map access and throws
\* "fatal error: concurrent map writes" (or "... map read and map write"):
\* the process ends and its state is gone.
Fatal ==
    /\ ~crashed
    /\ MapRace
    /\ crashed' = TRUE
    /\ clients' = {}
    /\ roomUsers' = [r \in {} |-> <<>>]
    /\ mutex' = 0
    /\ Room' = [w \in Conns |-> ""]
    /\ MicOn' = [w \in Conns |-> TRUE]
    /\ pc' = [w \in Conns |-> "dead"]
    /\ cur' = [w \in Conns |-> ZeroMsg]
    /\ tmp' = [w \in Conns |-> <<>>]
    /\ wire' = Quiet
    /\ frames' = 0
    /\ joined' = [w \in Conns |-> <<>>]
    /\ removes' = [w \in Conns |-> 0]
    /\ written' = [w \in Conns |-> [first |-> "", ids |-> 0]]

Next ==
    \/ \E w \in Conns : Connect(w)
    \/ \E w \in Conns : Register(w)
    \/ \E w \in Conns : SendId(w)
    \/ \E w \in Conns : ReadMessage(w)
    \/ \E w \in Conns : ReadMalformed(w)
    \/ \E w \in Conns : ReadError(w)
    \/ \E w \in Conns : JoinLock(w)
    \/ \E w \in Conns : JoinAppend(w)
    \/ \E w \in Conns : removeClient(w)
    \/ \E w \in Conns : SetMic(w)
    \/ \E w \in Conns : Relay(w)
    \/ \E w \in Conns : broadcastUserList(w)
    \/ \E w \in Conns : broadcastBlocked(w)
    \/ Fatal

Spec == Init /\ [][Next]_vars

\* The server some frames later: connection 1 has joined room r1 (once, or
\* twice in a row), connection 2 has then joined r1 as well or has not yet
\* arrived, every handler has returned to its read, and the last step was
\* the last join's broadcast.  frames counts the frames read from here on.
InitRoom ==
    \E n \in {1, 2}, inRoom \in {{1}, {1, 2}} :
        /\ clients = inRoom
        /\ roomUsers = [r \in {"r1"} |->
                           [k \in 1..n |-> 1]
                               \o (IF 2 \in inRoom THEN <<2>> ELSE <<>>)]
        /\ mutex = 0
        /\ Room = [w \in Conns |-> IF w \in inRoom THEN "r1" ELSE ""]
        /\ MicOn = [w \in Conns |-> TRUE]
        /\ pc = [w \in Conns |-> IF w \in inRoom THEN "read" ELSE "new"]
        /\ cur = [w \in Conns |-> ZeroMsg]
        /\ tmp = [w \in Conns |-> <<>>]
        /\ wire = [by |-> IF 2 \in inRoom THEN 2 ELSE 1,
                   frame |-> [ZeroMsg EXCEPT !.type = "join", !.room = "r1"],
                   room |-> "r1",
                   sent |-> BroadcastSends("r1", Roster("r1"))]
        /\ frames = 0
        /\ joined = [w \in Conns |->
                        IF w = 1 THEN [k \in 1..n |-> "r1"]
                        ELSE IF w \in inRoom THEN <<"r1">> ELSE <<>>]
        /\ removes = [w \in Conns |-> 0]
        /\ crashed = FALSE
        /\ written = [w \in Conns |->
                         IF w \in inRoom THEN [first |-> "id", ids |-> 1]
                         ELSE [first |-> "", ids |-> 0]]

SpecRoom == InitRoom /\ [][Next]_vars

(***************************************************************************)
(* Properties                                                              *)
(***************************************************************************)

\* No worker is inside a handler or its teardown.
Quiescent == \A w \in Conns : pc[w] \in {"new", "read", "done", "dead"}

\* C1: no named room's member list ever holds the same connection
\* identifier more than once, whatever joins and leaves a connection sends.
C1_NoDuplicateMember ==
    \A r \in DOMAIN roomUsers \ {""} : \A w \in Conns : Count(roomUsers[r], w) <= 1

\* C2: right after removeClient has run for a connection (whose joins all
\* named a room), the connection is absent from the registry and from every
\* room's member list, and running removeClient again would change neither.
C2_RemovedEverywhere ==
    \A w \in Conns :
        (/\ pc[w] = "exit_bcast" \/ (pc[w] = "bcast" /\ cur[w].type = "leave")
         /\ Count(joined[w], "") = 0)
            => /\ w \notin clients
               /\ \A r \in DOMAIN roomUsers : Count(roomUsers[r], w) = 0
               /\ RemoveMember(Room[w], w) = roomUsers

\* C3: whenever no worker is in the middle of a message or a teardown,
\* every identifier in the member list of every named room is a key of the
\* registry.
C3_MembersRegistered ==
    Quiescent =>
        \A r \in DOMAIN roomUsers \ {""} :
            \A i \in 1..Len(roomUsers[r]) : roomUsers[r][i] \in clients

\* A worker is about to write its Client.MicOn without the mutex while
\* another worker's broadcast is about to read it for the roster.
FieldRace ==
    \E w1, w2 \in Conns :
        /\ w1 # w2
        /\ pc[w1] = "mic"
        /\ pc[w2] \in {"bcast", "exit_bcast"}
        /\ Count(LiveMembers(BroadcastRoom(w2)), w1) > 0

\* C4: no two workers are ever about to access the same shared datum (the
\* registry map, a Connection's field), one of them writing, unless both do
\* so under the mutex.
C4_AccessesSerialized == ~MapRace /\ ~FieldRace

\* The connections whose only membership change so far is one join of room r.
JoinedOnce(r) == {w \in Conns : joined[w] = <<r>> /\ removes[w] = 0}

\* C5: when the connections that joined room r are N distinct connections
\* that each processed one join of r, in whatever interleaving, r's member
\* list has exactly N entries, each of the N identifiers once.
C5_ConcurrentJoinsAllKept ==
    \A r \in RoomNames :
        (\A w \in Conns \ JoinedOnce(r) : Count(joined[w], r) = 0)
            => /\ Len(Members(r)) = Cardinality(JoinedOnce(r))
               /\ \A w \in JoinedOnce(r) : Count(Members(r), w) = 1

\* Every connection has processed one join of room r1, and all are listed.
C5_Witness ==
    /\ JoinedOnce("r1") = Conns
    /\ \A w \in Conns : pc[w] # "joinLocked" /\ Count(Members("r1"), w) = 1

\* C6: a relay whose `to` is registered writes exactly one frame, to the
\* target's connection; its `from` is the sender's identifier and its type
\* and payload are those of the frame received.
C6_RelayVerbatim ==
    (wire.frame.type \in RelayTypes /\ wire.frame.to \in clients)
        => wire.sent = <<[to |-> wire.frame.to,
                          msg |-> [wire.frame EXCEPT !.from = wire.by]]>>

\* C7: a relay whose `to` is not registered writes to no connection, leaves
\* the registry, the member lists and the Connections unchanged, and the
\* sender's read loop goes on to the next frame.
C7_RelayMissNoEffect ==
    [][\A w \in Conns :
          (pc[w] = "relay" /\ pc'[w] # "relay" /\ cur[w].to \notin clients)
              => /\ wire'.sent = <<>>
                 /\ UNCHANGED <<clients, roomUsers, Room, MicOn>>
                 /\ pc'[w] = "read"]_vars

\* C8: removeClient runs at most once for a connection, and exactly once
\* for a connection whose handler has returned.
C8_TeardownOnce ==
    \A w \in Conns : removes[w] <= 1 /\ (pc[w] = "done" => removes[w] = 1)

\* C9: processing a leave takes the connection out of its room's member
\* list and empties its room field; for a connection in no room it changes
\* neither the registry, nor a member list, nor a Connection.
C9_LeaveEffect ==
    [][\A w \in Conns :
          (pc[w] = "leave" /\ pc'[w] = "bcast")
              => IF Room[w] # ""
                 THEN /\ Room'[w] = ""
                      /\ roomUsers' = RemoveMember(Room[w], w)
                 ELSE UNCHANGED <<clients, roomUsers, Room, MicOn>>]_vars

\* C10: the broadcast that follows the leave of a member of room r is for
\* room r, whatever the frame's `room` holds: every remaining live member of
\* r is sent a user_list that does not list the leaver.
C10_LeaveBroadcastsOwnRoom ==
    \A w \in Conns :
        (/\ wire.by = w
         /\ wire.frame.type = "leave"
         /\ removes[w] = 1
         /\ joined[w] # <<>>
         /\ Room[w] # "")
            => /\ wire.room = Room[w]
               /\ \A m \in Conns :
                     Count(LiveMembers(Room[w]), m) > 0
                         => \E k \in 1..Len(wire.sent) :
                               /\ wire.sent[k].to = m
                               /\ wire.sent[k].msg.type = "user_list"
                               /\ \A j \in 1..Len(wire.sent[k].msg.users) :
                                     wire.sent[k].msg.users[j].id # w

\* The identifiers a roster lists, in order.
RosterIds(users) == [j \in 1..Len(users) |-> users[j].id]

\* Connection m is written a user_list in the last step.
SentList(m) ==
    {k \in 1..Len(wire.sent) :
        wire.sent[k].to = m /\ wire.sent[k].msg.type = "user_list"}

\* C11: when the broadcast of a join of room r by connection c has been
\* made, it was for room r, c itself and every other live member of r were
\* written a user_list, and each such roster lists c with c's mic state;
\* whatever c did before this join.
C11_JoinBroadcast ==
    \A c \in Conns :
        (wire.by = c /\ wire.frame.type = "join" /\ pc[c] = "read")
            => /\ wire.room = wire.frame.room
               /\ \A m \in Conns :
                     (m = c \/ Count(LiveMembers(wire.room), m) > 0)
                         => /\ SentList(m) # {}
                            /\ \A k \in SentList(m) :
                                  \E j \in 1..Len(wire.sent[k].msg.users) :
                                     wire.sent[k].msg.users[j] =
                                        [id |-> c, micOn |-> MicOn[c]]

\* The named rooms a connection has appended itself to.
RoomsOf(c) == {joined[c][i] : i \in 1..Len(joined[c])} \ {""}

\* C12: when the teardown of a disconnected connection c (one that sent no
\* leave and joined named rooms only) has made its broadcast, every remaining live member of every
\* room c was a member of was written a user_list whose roster is the
\* remaining live members of that room in join order, c not among them.
C12_DisconnectBroadcast ==
    \A c \in Conns :
        (/\ wire.by = c /\ pc[c] = "done" /\ removes[c] = 1
         /\ Count(joined[c], "") = 0)
            => \A r \in RoomsOf(c) :
                  \A m \in Conns \ {c} :
                     Count(LiveMembers(r), m) > 0
                         => /\ SentList(m) # {}
                            /\ \A k \in SentList(m) :
                                  LET ids == RosterIds(wire.sent[k].msg.users)
                                  IN  /\ ids = LiveMembers(r)
                                      /\ Count(ids, c) = 0

\* The rosters of a room as of one point of the execution: every entry of a
\* connection shows the one mic state the connection has at that point
\* (before or after a write of it that is under way).
SnapshotRosters(room) ==
    LET live == LiveMembers(room)
    IN  {[k \in 1..Len(live) |-> [id |-> live[k], micOn |-> mic[live[k]]]] :
            mic \in {f \in [Conns -> BOOLEAN] :
                        \A m \in Conns : f[m] \in MicReads(m)}}

\* C13: the user_lists written by one broadcast all carry the same roster,
\* and that roster is the room's live membership and mic states as of one
\* point of the execution.
C13_RosterIsSnapshot ==
    \A k \in 1..Len(wire.sent) :
        wire.sent[k].msg.type = "user_list"
            => /\ wire.sent[k].msg.users = wire.sent[1].msg.users
               /\ wire.sent[k].msg.users \in SnapshotRosters(wire.room)

\* The steps for which a worker needs the mutex.
NeedsMutex(w) == pc[w] \in {"join", "leave", "exit", "bcast", "exit_bcast"}

\* C14: no worker waits for the mutex while the worker holding it is in a
\* write that never returns: a peer that does not accept a pushed message
\* keeps no other worker from completing its join, leave, mic or teardown.
C14_BlockedPeerStallsNoOne ==
    \A w \in Conns :
        (pc[w] = "blocked" /\ mutex = w)
            => \A v \in Conns \ {w} : ~NeedsMutex(v)

\* C15: the mic step of a connection (one whose joins all named a room) sets
\* its mic flag to the given value; the broadcast that follows writes, to every live member of every named
\* room that lists the connection, a user_list showing the connection with
\* that value; a mic frame without micOn writes nothing and changes no flag.
C15_MicEffect ==
    [][\A c \in Conns :
          /\ (pc[c] = "mic" /\ pc'[c] = "bcast")
                => MicOn'[c] = cur[c].micOn[1]
          /\ (/\ pc[c] = "bcast" /\ cur[c].type = "mic" /\ pc'[c] = "read"
              /\ Count(joined[c], "") = 0)
                => \A r \in DOMAIN roomUsers \ {""} :
                      \A m \in Conns :
                         (/\ Count(Members(r), c) > 0
                          /\ Count(LiveMembers(r), m) > 0)
                             => \E k \in 1..Len(wire'.sent) :
                                   /\ wire'.sent[k].to = m
                                   /\ wire'.sent[k].msg.type = "user_list"
                                   /\ \E j \in 1..Len(wire'.sent[k].msg.users) :
                                         wire'.sent[k].msg.users[j] =
                                            [id |-> c, micOn |-> MicOn[c]]
          /\ (/\ pc[c] = "read" /\ wire'.by = c
              /\ wire'.frame.type = "mic" /\ wire'.frame.micOn = <<>>)
                => MicOn' = MicOn /\ wire'.sent = <<>> /\ pc'[c] = "read"]_vars

\* C16: a step that reads a frame that does not decode (recorded as the
\* zero Message), or whose type has no case in the switch, changes neither
\* the registry, nor a member list, nor a Connection, writes to no
\* connection and leaves the worker at its read; and a worker goes into a
\* handler only with a frame of one of the six handled types.
C16_IgnoredFrameNoEffect ==
    [][\A c \in Conns :
          /\ (/\ pc[c] = "read" /\ wire'.by = c /\ frames' = frames + 1
              /\ wire'.frame.type \notin HandledTypes)
                => /\ UNCHANGED <<clients, roomUsers, Room, MicOn, mutex,
                                  written>>
                   /\ wire'.sent = <<>>
                   /\ pc'[c] = "read"
          /\ (pc[c] = "read" /\ pc'[c] \notin {"read", "exit", "dead"})
                => cur'[c].type \in HandledTypes]_vars

\* A live member of r1 has just sent a user_list frame of its own.
C16_Witness ==
    \E c \in Conns :
        /\ wire = [by |-> c, frame |-> [ZeroMsg EXCEPT !.type = "user_list"],
                   room |-> "", sent |-> <<>>]
        /\ pc[c] = "read"
        /\ Count(LiveMembers("r1"), c) > 0

\* C17: a connection whose id message is about to be written is in the
\* registry with micOn true and an empty room, and nothing was written to
\* it yet; the first frame written to a connection is its id message; a
\* frame of type id is written only by a connection's own worker, to that
\* connection, carrying its identifier; no connection is written more than
\* one id message, and one that reads frames was written exactly one.
C17_IdFirstAndOnce ==
    /\ \A w \in Conns :
          /\ pc[w] \in {"new", "register"}
                => w \notin clients /\ written[w] = [first |-> "", ids |-> 0]
          /\ pc[w] = "sendId"
                => /\ w \in clients /\ MicOn[w] = TRUE /\ Room[w] = ""
                   /\ written[w] = [first |-> "", ids |-> 0]
          /\ pc[w] \notin {"new", "register", "sendId", "dead"}
                => written[w] = [first |-> "id", ids |-> 1]
    /\ \A k \in 1..Len(wire.sent) :
          wire.sent[k].msg.type = "id"
              => /\ wire.sent[k].to = wire.by
                 /\ wire.sent[k].msg.id = wire.by
                 /\ Len(wire.sent) = 1

\* A connection has just been written its id message while another
\* connection is already a member of a room.
C17_Witness ==
    \E w, v \in Conns :
        /\ wire.by = w /\ pc[w] = "read"
        /\ wire.sent = <<sendMessage(w, [ZeroMsg EXCEPT !.type = "id",
                                                         !.id = w])>>
        /\ v # w /\ Count(LiveMembers("r1"), v) > 0

\* C18: every user_list a broadcast writes goes to a registered connection,
\* and its roster lists exactly the member-list entries of the room that
\* are in the registry, in order: an entry whose Connection is absent is in
\* no roster and is written nothing.
C18_RosterOnlyRegistered ==
    \A k \in 1..Len(wire.sent) :
        wire.sent[k].msg.type = "user_list"
            => /\ wire.sent[k].to \in clients
               /\ \A j \in 1..Len(wire.sent[k].msg.users) :
                     wire.sent[k].msg.users[j].id \in clients
               /\ RosterIds(wire.sent[k].msg.users) = LiveMembers(wire.room)

\* The broadcast for r1 has just run while r1's member list holds an
\* identifier that is not in the registry; nothing was written to it.
C18_Witness ==
    \E w \in Conns :
        /\ wire.by = w /\ wire.room = "r1" /\ pc[w] = "read"
        /\ wire.frame.type = "join"
        /\ \E i \in 1..Len(Members("r1")) : Members("r1")[i] \notin clients
        /\ \A k \in 1..Len(wire.sent) : wire.sent[k].to \in clients

\* C19: an identifier is in the member list of a named room r only if the
\* Connection's room field is r (for a connection whose joins all named a
\* room, and outside the two steps of a join): a connection is a member of
\* at most one room at a time.
C19_OneRoomAtATime ==
    \A w \in Conns :
        (pc[w] # "joinLocked" /\ Count(joined[w], "") = 0)
            => \A r \in DOMAIN roomUsers \ {""} :
                  Count(roomUsers[r], w) > 0 => Room[w] = r

\* C20: no worker is about to write a relayed frame to a connection while
\* another worker is about to write to the same connection (a relay, or
\* the user_list of a broadcast): a relay takes no lock, so the two writes
\* would be under way together.
C20_OneWriterPerConn ==
    \A w1, w2 \in Conns :
        (w1 # w2 /\ pc[w1] = "relay")
            => WritesTo(w1) \cap WritesTo(w2) = {}

====
